---- MODULE Spec2Model ----
(***************************************************************************)
(* State-machine model of the file-preview MCP server (src/src/index.ts):  *)
(* the FilePreviewServer class, its two tool handlers, the lazily launched *)
(* browser handle and the SIGINT shutdown handler.                         *)
(*                                                                         *)
(* Every `await` of the source is a suspension point: the synchronous code *)
(* between two awaits is one atomic action, and the completion of an       *)
(* awaited engine operation is an action of its own, one for its success    *)
(* (...Ok) and one for its rejection (...Fail).                            *)
(***************************************************************************)
EXTENDS Integers, Sequences, FiniteSets, TLC

VARIABLES
    browser,    \* this.browser: 0 is null, h > 0 is the handle of launch number h
    engines,    \* engines[h]: "open" or "closed", one entry per completed launch
    closeCalls, \* closeCalls[h]: how often browser.close() was invoked on handle h
    sig,        \* pc of each SIGINT handler instance started so far
    exited,     \* process.exit(0) has run
    now,        \* Date.now() as last read
    shotDir,    \* the screenshots directory exists
    shots,      \* files of the screenshots directory: name -> page it captures
    fs,         \* input files: path -> text
    docImages,  \* image elements the previewed documents hold
    pc,         \* pc[c]: where request c is suspended
    tool,       \* request.params.name of request c
    args,       \* request.params.arguments of request c
    myBrowser,  \* const browser of handlePreviewFile
    didLaunch,  \* request c invoked puppeteer.launch()
    didStat,    \* request c invoked fs.existsSync on its filePath
    page,       \* const page of handlePreviewFile: "none", "open", "closed"
    imgs,       \* document.images of request c's page, as the barrier sees them
    timer,      \* when the 1000 ms timer of request c was set
    shotPath,   \* const screenshotPath of handlePreviewFile
    outcome,    \* how request c ended (or will end once finally has run)
    analysis    \* const analysis of handleAnalyzeContent

vars == <<browser, engines, closeCalls, sig, exited, now, shotDir, shots, fs,
          docImages, pc, tool, args, myBrowser, didLaunch, didStat, page, imgs,
          timer, shotPath, outcome, analysis>>

sessionVars == <<browser, engines, closeCalls>>
signalVars  == <<sig, exited>>
diskVars    == <<shotDir, shots, fs>>
requestVars == <<tool, args>>
\* what a step of a page operation leaves alone, besides the request's own locals
restVars    == <<sessionVars, signalVars, diskVars, now, docImages, requestVars,
                 didLaunch, didStat, analysis>>

-----------------------------------------------------------------------------
(* Bounds *)

MaxImages  == 2   \* image elements per document
MaxTime    == 1   \* Date.now() ranges over 0..MaxTime milliseconds
MaxSignals == 2   \* SIGINT deliveries
MaxElems   == 4   \* elements per generated document

\* Request slots. A slot is free again once its request has been answered, so
\* any number of requests is served, at most two of them in flight.
Calls == {"c1", "c2"}

Images == 1..MaxImages

Null == "null"
\* the JavaScript value undefined
Undefined == [undefined |-> TRUE]

-----------------------------------------------------------------------------
(* Paths: a directory (sequence of components) and a file name (sequence   *)
(* of pieces, the extension being the last piece).                         *)

File(d, n) == [dir |-> d, name |-> n]

P1 == File(<<"site", "a">>, <<"x", ".html">>)   \* both stylesheets present
P2 == File(<<"site", "b">>, <<"x", ".html">>)   \* both stylesheets present
P3 == File(<<"site", "a">>, <<"y", ".html">>)   \* per-page stylesheet missing
P4 == File(<<"lone", "c">>, <<"x", ".html">>)   \* shared stylesheet missing
P0 == File(<<"site", "a">>, <<"z", ".html">>)   \* no such file

Paths == {P0, P1, P2, P3, P4}

\* request.params.arguments: absent, or a mapping with or without filePath
NoArgs == [given |-> FALSE, filePath |-> Undefined]
Args(p) == [given |-> TRUE, filePath |-> p]
ArgChoices == {NoArgs, Args(Undefined)} \cup {Args(p) : p \in Paths}

\* path.dirname(filePath)
Dirname(p) == p.dir

\* path.basename(filePath)
Basename(p) == p.name

\* path.basename(filePath, '.html'): the name without a trailing '.html'
BasenameNoExt(p) ==
    IF Len(p.name) > 1 /\ p.name[Len(p.name)] = ".html"
    THEN SubSeq(p.name, 1, Len(p.name) - 1)
    ELSE p.name

\* String.prototype.replace('.html', '.css'): the first occurrence only
ReplaceHtmlByCss(n) ==
    IF \E i \in 1..Len(n) : n[i] = ".html"
    THEN LET i == CHOOSE k \in 1..Len(n) :
                      n[k] = ".html" /\ \A j \in 1..(k - 1) : n[j] # ".html"
         IN [n EXCEPT ![i] = ".css"]
    ELSE n

\* path.join(baseDir, '..', 'style.css')
MainCssPath(p) ==
    File(IF Len(Dirname(p)) > 0 THEN SubSeq(Dirname(p), 1, Len(Dirname(p)) - 1)
         ELSE <<>>, <<"style", ".css">>)

\* path.join(baseDir, path.basename(filePath).replace('.html', '.css'))
PageCssPath(p) == File(Dirname(p), ReplaceHtmlByCss(Basename(p)))

-----------------------------------------------------------------------------
(* Documents. A text is a sequence of lexical tokens: complete tags, a run *)
(* of text without markup or line terminator ("text"), a line terminator   *)
(* ("LF").                                                                 *)

Elem(k) ==
    CASE k = "h1"   -> <<"<h1>", "text", "</h1>">>
      [] k = "h2"   -> <<"<h2>", "text", "</h2>">>
      [] k = "p"    -> <<"<p>", "text", "</p>">>
      [] k = "img"  -> <<"<img>">>
      [] k = "a"    -> <<"<a>", "text", "</a>">>
      [] k = "lf"   -> <<"LF">>
      [] k = "p_ml" -> <<"<p>", "text", "LF", "text", "</p>">>   \* spans two lines
      [] k = "a_ml" -> <<"<a>", "LF", "text", "</a>">>           \* spans two lines

ElemKinds == {"h1", "h2", "p", "img", "a", "lf", "p_ml", "a_ml"}

RECURSIVE Flatten(_)
Flatten(es) == IF es = <<>> THEN <<>> ELSE Elem(Head(es)) \o Flatten(Tail(es))

\* 3 headings, 2 paragraphs, 1 image, 4 links
ExampleDoc ==
    Flatten(<<"h1", "h1", "h1", "p", "lf", "p", "img", "a", "a", "a", "a">>)

Docs == {Flatten(es) : es \in UNION {[1..n -> ElemKinds] : n \in 0..MaxElems}}
            \cup {ExampleDoc}

CssText == <<"css">>

\* The input tree: four HTML files and the stylesheets beside them.
FS0 ==
    (P1 :> ExampleDoc) @@ (P2 :> ExampleDoc) @@ (P3 :> ExampleDoc)
      @@ (P4 :> ExampleDoc)
      @@ (File(<<"site">>, <<"style", ".css">>) :> CssText)
      @@ (File(<<"site", "a">>, <<"x", ".css">>) :> CssText)
      @@ (File(<<"site", "b">>, <<"x", ".css">>) :> CssText)
      @@ (File(<<"lone", "c">>, <<"x", ".css">>) :> CssText)

\* fs.existsSync(p): false for anything that is not a path string
ExistsSync(p) == p \in DOMAIN fs

-----------------------------------------------------------------------------
(* The four patterns of handleAnalyzeContent, on tokens.                   *)

\* <h[1-6][^>]*>
HeadingOpen == {"<h1>", "<h2>"}
\* <\/h[1-6]>
HeadingClose == {"</h1>", "</h2>"}
\* <p[^>]*>  and  <\/p>
ParaOpen == {"<p>"}
ParaClose == {"</p>"}
\* <a[^>]*>  and  <\/a>
LinkOpen == {"<a>"}
LinkClose == {"</a>"}
\* <img[^>]*>
ImgTag == {"<img>"}

\* A faulty variant of LazyClose: the greedy .* in place of the lazy .*?, which runs to
\* the last closing tag of the line.
RECURSIVE GreedyClose(_, _, _)
GreedyClose(text, close, k) ==
    IF k > Len(text) \/ text[k] = "LF" THEN 0
    ELSE IF GreedyClose(text, close, k + 1) > 0
    THEN GreedyClose(text, close, k + 1)
    ELSE IF text[k] \in close THEN k
    ELSE 0

\* .*? followed by the closing tag, from position k: the end of the match, or 0.
\* The dot matches no line terminator.
RECURSIVE LazyClose(_, _, _)
LazyClose(text, close, k) ==
    IF k > Len(text) THEN 0
    ELSE IF text[k] \in close THEN k
    ELSE IF text[k] = "LF" THEN 0
    ELSE LazyClose(text, close, k + 1)

\* (content.match(/open.*?close/g) || []).length, scanning from position i
RECURSIVE CountPairs(_, _, _, _)
CountPairs(text, open, close, i) ==
    IF i > Len(text) THEN 0
    ELSE IF text[i] \in open /\ LazyClose(text, close, i + 1) > 0
    THEN 1 + CountPairs(text, open, close, LazyClose(text, close, i + 1) + 1)
    ELSE CountPairs(text, open, close, i + 1)

\* (content.match(/<img[^>]*>/g) || []).length
CountTags(text, tags) == Cardinality({i \in 1..Len(text) : text[i] \in tags})

Analyse(text) ==
    [headings   |-> CountPairs(text, HeadingOpen, HeadingClose, 1),
     paragraphs |-> CountPairs(text, ParaOpen, ParaClose, 1),
     images     |-> CountTags(text, ImgTag),
     links      |-> CountPairs(text, LinkOpen, LinkClose, 1)]

-----------------------------------------------------------------------------
(* Initial state: nothing launched, no request in flight.                  *)

NoImages == [i \in Images |-> "none"]

InitCalls ==
    /\ pc = [c \in Calls |-> "idle"]
    /\ tool = [c \in Calls |-> Null]
    /\ args = [c \in Calls |-> NoArgs]
    /\ myBrowser = [c \in Calls |-> 0]
    /\ didLaunch = [c \in Calls |-> FALSE]
    /\ didStat = [c \in Calls |-> FALSE]
    /\ timer = [c \in Calls |-> 0]
    /\ page = [c \in Calls |-> "none"]
    /\ imgs = [c \in Calls |-> NoImages]
    /\ shotPath = [c \in Calls |-> Undefined]
    /\ outcome = [c \in Calls |-> Null]
    /\ analysis = [c \in Calls |-> Undefined]

InitProcess ==
    /\ browser = 0
    /\ engines = <<>>
    /\ closeCalls = <<>>
    /\ sig = <<>>
    /\ exited = FALSE
    /\ now = 0
    /\ shotDir = FALSE
    /\ shots = <<>>

Init ==
    /\ InitProcess
    /\ InitCalls
    /\ fs = FS0
    /\ docImages = {}

-----------------------------------------------------------------------------
(* Helpers of the handlers.                                                *)

Set(f, c, v) == [f EXCEPT ![c] = v]

\* The engine behind request c's handle still runs.
EngineOpen(c) ==
    /\ myBrowser[c] \in 1..Len(engines)
    /\ engines[myBrowser[c]] = "open"

\* The handler ends with `kind`: an error thrown outside the try statement, or
\* the return of a handler that awaits nothing.
Finish(c, kind) ==
    /\ pc' = Set(pc, c, "done")
    /\ outcome' = Set(outcome, c, kind)
    /\ imgs' = Set(imgs, c, NoImages)
    /\ timer' = Set(timer, c, 0)

\* Control enters the finally block, lines 173-175, with completion `kind`
\* pending: page.close() is invoked and awaited.
EnterFinally(c, kind) ==
    /\ pc' = Set(pc, c, "close")
    /\ outcome' = Set(outcome, c, kind)
    /\ imgs' = Set(imgs, c, NoImages)
    /\ timer' = Set(timer, c, 0)

\* An awaited page operation resolved: the handler runs on to its next await.
Step(c, from, to) ==
    /\ ~exited
    /\ pc[c] = from
    /\ EngineOpen(c)
    /\ pc' = Set(pc, c, to)
    /\ UNCHANGED <<restVars, myBrowser, page, imgs, timer, shotPath, outcome>>

\* A faulty variant of Reject: the error path also drops the browser handle.
RejectDropsHandle(c, from, kind) ==
    /\ ~exited
    /\ pc[c] = from
    /\ EnterFinally(c, kind)
    /\ shotPath' = Set(shotPath, c, Undefined)
    /\ browser' = 0
    /\ UNCHANGED <<engines, closeCalls, signalVars, diskVars, now, docImages,
                   requestVars, didLaunch, didStat, analysis, myBrowser, page>>

\* An awaited page operation inside the try block rejected.
Reject(c, from, kind) ==
    /\ ~exited
    /\ pc[c] = from
    /\ EnterFinally(c, kind)
    /\ shotPath' = Set(shotPath, c, Undefined)
    /\ UNCHANGED <<restVars, myBrowser, page>>

\* `${path.basename(filePath, '.html')}_${Date.now()}.png`
ScreenshotName(p, t) == [stem |-> BasenameNoExt(p), time |-> t, ext |-> ".png"]

ScreenshotsDir == <<"Users", "seanivore", "Documents", "Cline", "MCP",
                    "mcp-file-preview", "screenshots">>

\* path.join(screenshotsDir, screenshotName)
ScreenshotPath(p, t) == File(ScreenshotsDir, ScreenshotName(p, t))

-----------------------------------------------------------------------------
(* The tool handlers up to their first await.                              *)

\* initBrowser up to the await of puppeteer.launch(): the handle is tested, and
\* launch() is invoked when it is null.
initBrowser(c) ==
    IF browser = 0
    THEN /\ pc' = Set(pc, c, "launch")
         /\ didLaunch' = Set(didLaunch, c, TRUE)
         /\ UNCHANGED myBrowser
    ELSE /\ pc' = Set(pc, c, "newPage")
         /\ myBrowser' = Set(myBrowser, c, browser)
         /\ UNCHANGED didLaunch

\* A faulty variant of handlePreviewFile: the existence check is left out.
handlePreviewFileUnchecked(c, a) ==
    IF ~a.given
    THEN /\ Finish(c, "TypeError")
         /\ UNCHANGED <<myBrowser, didLaunch, didStat>>
    ELSE /\ didStat' = Set(didStat, c, TRUE)
         /\ initBrowser(c)
         /\ UNCHANGED <<outcome, imgs, timer>>

handlePreviewFile(c, a) ==
    IF ~a.given
    THEN \* destructuring undefined throws a TypeError
         /\ Finish(c, "TypeError")
         /\ UNCHANGED <<myBrowser, didLaunch, didStat>>
    ELSE /\ didStat' = Set(didStat, c, TRUE)
         /\ IF ~ExistsSync(a.filePath)
            THEN /\ Finish(c, "NotFound")
                 /\ UNCHANGED <<myBrowser, didLaunch>>
            ELSE /\ initBrowser(c)
                 /\ UNCHANGED <<outcome, imgs, timer>>

handleAnalyzeContent(c, a) ==
    IF ~a.given
    THEN /\ Finish(c, "TypeError")
         /\ UNCHANGED <<didStat, analysis>>
    ELSE /\ didStat' = Set(didStat, c, TRUE)
         /\ IF ~ExistsSync(a.filePath)
            THEN /\ Finish(c, "NotFound")
                 /\ UNCHANGED analysis
            ELSE /\ Finish(c, "ok")
                 /\ analysis' = Set(analysis, c, Analyse(fs[a.filePath]))

\* The CallToolRequestSchema handler with the synchronous head of the handler
\* it dispatches to.
CallTool(c, n, a) ==
    /\ ~exited
    /\ pc[c] = "idle"
    /\ tool' = Set(tool, c, n)
    /\ args' = Set(args, c, a)
    /\ CASE n = "preview_file" ->
              handlePreviewFile(c, a) /\ UNCHANGED analysis
         [] n = "analyze_content" ->
              handleAnalyzeContent(c, a) /\ UNCHANGED <<myBrowser, didLaunch>>
         [] OTHER ->
              /\ Finish(c, "MethodNotFound")
              /\ UNCHANGED <<myBrowser, didLaunch, didStat, analysis>>
    /\ UNCHANGED <<sessionVars, signalVars, diskVars, now, docImages, page,
                   shotPath>>

\* A client sends a request of tool n with arguments among A.
Request(c, n, A) == \E a \in A : CallTool(c, n, a)

-----------------------------------------------------------------------------
(* handlePreviewFile, one action per completion of an awaited operation.   *)

\* line 37: puppeteer.launch() resolved; this.browser is assigned and
\* browser.newPage() invoked
LaunchOk(c) ==
    /\ ~exited
    /\ pc[c] = "launch"
    /\ engines' = Append(engines, "open")
    /\ closeCalls' = Append(closeCalls, 0)
    /\ browser' = Len(engines) + 1
    /\ myBrowser' = Set(myBrowser, c, Len(engines) + 1)
    /\ pc' = Set(pc, c, "newPage")
    /\ UNCHANGED <<signalVars, diskVars, now, docImages, requestVars, didLaunch,
                   didStat, analysis, page, imgs, timer, shotPath, outcome>>

\* line 37: puppeteer.launch() rejected
LaunchFail(c) ==
    /\ ~exited
    /\ pc[c] = "launch"
    /\ Finish(c, "EngineLaunchError")
    /\ UNCHANGED <<restVars, myBrowser, page, shotPath>>

\* line 109: browser.newPage() resolved
NewPageOk(c) ==
    /\ ~exited
    /\ pc[c] = "newPage"
    /\ EngineOpen(c)
    /\ page' = Set(page, c, "open")
    /\ pc' = Set(pc, c, "setViewport")
    /\ UNCHANGED <<restVars, myBrowser, imgs, timer, shotPath, outcome>>

\* line 109: browser.newPage() rejected
NewPageFail(c) ==
    /\ ~exited
    /\ pc[c] = "newPage"
    /\ Finish(c, "EngineError")
    /\ myBrowser' = Set(myBrowser, c, 0)
    /\ UNCHANGED <<restVars, page, shotPath>>

\* line 110: page.setViewport() resolved; the try statement is entered
SetViewportOk(c) == Step(c, "setViewport", "setBypassCSP")

\* line 110: page.setViewport() rejected, before the try statement
SetViewportFail(c) ==
    /\ ~exited
    /\ pc[c] = "setViewport"
    /\ Finish(c, "EngineError")
    /\ UNCHANGED <<restVars, myBrowser, page, shotPath>>

\* line 114
SetBypassCSPOk(c) == Step(c, "setBypassCSP", "setExtraHTTPHeaders")
SetBypassCSPFail(c) == Reject(c, "setBypassCSP", "EngineError")

\* lines 115-118
SetExtraHTTPHeadersOk(c) == Step(c, "setExtraHTTPHeaders", "goto")
SetExtraHTTPHeadersFail(c) == Reject(c, "setExtraHTTPHeaders", "EngineError")

\* lines 121-131: page.goto() resolved; both stylesheets are read and the
\* first addStyleTag is invoked
GotoOk(c) ==
    /\ ~exited
    /\ pc[c] = "goto"
    /\ EngineOpen(c)
    /\ IF MainCssPath(args[c].filePath) \in DOMAIN fs
          /\ PageCssPath(args[c].filePath) \in DOMAIN fs
       THEN /\ pc' = Set(pc, c, "addStyleTag1")
            /\ UNCHANGED <<outcome, imgs, timer>>
       ELSE EnterFinally(c, "StyleResourceError")
    /\ UNCHANGED <<restVars, myBrowser, page, shotPath>>

\* lines 121-124: page.goto() rejected (the 30 s timeout among the causes)
GotoFail(c) == Reject(c, "goto", "NavigationTimeoutError")

\* lines 131-132
AddStyleTag1Ok(c) == Step(c, "addStyleTag1", "addStyleTag2")
AddStyleTag1Fail(c) == Reject(c, "addStyleTag1", "EngineError")
AddStyleTag2Ok(c) == Step(c, "addStyleTag2", "evaluate")
AddStyleTag2Fail(c) == Reject(c, "addStyleTag2", "EngineError")

\* lines 136-142, run inside the page: the images that are not complete
\* (`pending`) each get the resolver of a new promise as onload and onerror
Barrier(c, pending) ==
    imgs' = Set(imgs, c, [i \in Images |->
                            IF i \in pending THEN "awaited" ELSE "none"])

BarrierEnter(c) ==
    /\ ~exited
    /\ pc[c] = "evaluate"
    /\ EngineOpen(c)
    /\ \E pending \in SUBSET docImages : Barrier(c, pending)
    /\ pc' = Set(pc, c, "imageWait")
    /\ UNCHANGED <<restVars, myBrowser, page, timer, shotPath, outcome>>

PageLive(c) == pc[c] \in {"imageWait", "delay", "screenshot"} /\ EngineOpen(c)

\* line 140: a handler of the barrier runs and resolves the image's promise;
\* onload and onerror are the same function
Settle(c, i, event) ==
    /\ imgs' = [imgs EXCEPT ![c][i] = event]
    /\ UNCHANGED <<pc, outcome>>

\* the load event of an image the barrier awaits
ImageLoad(c, i) ==
    /\ ~exited
    /\ PageLive(c)
    /\ imgs[c][i] = "awaited"
    /\ Settle(c, i, "loaded")
    /\ UNCHANGED <<restVars, myBrowser, page, timer, shotPath>>

\* the error event of an image the barrier awaits
ImageError(c, i) ==
    /\ ~exited
    /\ PageLive(c)
    /\ imgs[c][i] = "awaited"
    /\ Settle(c, i, "error")
    /\ UNCHANGED <<restVars, myBrowser, page, timer, shotPath>>

\* A script of the page inserts an image after the barrier was entered: it has
\* no handler of the barrier.
ImageInsert(c, i) ==
    /\ ~exited
    /\ pc[c] = "imageWait"
    /\ EngineOpen(c)
    /\ imgs[c][i] = "none"
    /\ imgs' = [imgs EXCEPT ![c][i] = "late"]
    /\ UNCHANGED <<restVars, pc, myBrowser, page, timer, shotPath, outcome>>

\* A faulty variant of AllSettled: Promise.race in place of Promise.all.
AnySettled(c) ==
    \/ \A i \in Images : imgs[c][i] # "awaited"
    \/ \E i \in Images : imgs[c][i] \in {"loaded", "error"}

\* Promise.all of line 136: every promise created at entry is resolved
AllSettled(c) == \A i \in Images : imgs[c][i] # "awaited"

\* lines 135-146: page.evaluate() resolved; the timer of 1000 ms is set
EvaluateOk(c) ==
    /\ ~exited
    /\ pc[c] = "imageWait"
    /\ EngineOpen(c)
    /\ AllSettled(c)
    /\ pc' = Set(pc, c, "delay")
    /\ timer' = Set(timer, c, now)
    /\ UNCHANGED <<restVars, myBrowser, page, imgs, shotPath, outcome>>

\* lines 135-143: page.evaluate() rejected
EvaluateFail(c) ==
    /\ pc[c] \in {"evaluate", "imageWait"}
    /\ Reject(c, pc[c], "EngineError")

\* The timer of request c fires at time t: later than it was set, and not
\* before the clock was last read.
TimerFires(c, t) ==
    /\ ~exited
    /\ pc[c] = "delay"
    /\ t \in now..MaxTime
    /\ t > timer[c]

\* lines 146-162: the timer fired; the directory is created when missing, the
\* name is built from Date.now() and page.screenshot() is invoked
DelayDone(c) ==
    \E t \in 0..MaxTime :
       /\ TimerFires(c, t)
       /\ now' = t
       /\ shotDir' = TRUE
       /\ shotPath' = Set(shotPath, c, ScreenshotPath(args[c].filePath, t))
       /\ pc' = Set(pc, c, "screenshot")
       /\ timer' = Set(timer, c, 0)
       /\ UNCHANGED <<sessionVars, signalVars, shots, fs, docImages, requestVars,
                      didLaunch, didStat, analysis, myBrowser, page, imgs,
                      outcome>>

\* lines 150-152: the timer fired and fs.mkdirSync throws
MkdirFail(c) ==
    \E t \in 0..MaxTime :
       /\ TimerFires(c, t)
       /\ ~shotDir
       /\ now' = t
       /\ EnterFinally(c, "FsError")
       /\ UNCHANGED <<sessionVars, signalVars, diskVars, docImages, requestVars,
                      didLaunch, didStat, analysis, myBrowser, page, shotPath>>

\* lines 159-163: page.screenshot() resolved, the file holds the capture of
\* the page; page.content() is invoked
ScreenshotOk(c) ==
    /\ ~exited
    /\ pc[c] = "screenshot"
    /\ EngineOpen(c)
    /\ shots' = (shotPath[c] :> args[c].filePath) @@ shots
    /\ imgs' = Set(imgs, c, NoImages)
    /\ pc' = Set(pc, c, "content")
    /\ UNCHANGED <<sessionVars, signalVars, shotDir, fs, now, docImages,
                   requestVars, didLaunch, didStat, analysis, myBrowser, page,
                   timer, shotPath, outcome>>

\* lines 159-162: page.screenshot() rejected
ScreenshotFail(c) == Reject(c, "screenshot", "EngineError")

\* lines 163-174: page.content() resolved; the result is built and the
\* finally block entered
ContentOk(c) ==
    /\ ~exited
    /\ pc[c] = "content"
    /\ EngineOpen(c)
    /\ EnterFinally(c, "ok")
    /\ UNCHANGED <<restVars, myBrowser, page, shotPath>>

\* line 163: page.content() rejected
ContentFail(c) == Reject(c, "content", "EngineError")

\* line 174: page.close() resolved; the pending completion takes effect
PageCloseOk(c) ==
    /\ ~exited
    /\ pc[c] = "close"
    /\ EngineOpen(c)
    /\ page' = Set(page, c, "closed")
    /\ pc' = Set(pc, c, "done")
    /\ myBrowser' = Set(myBrowser, c, 0)
    /\ UNCHANGED <<restVars, imgs, timer, shotPath, outcome>>

\* line 174: page.close() rejected, the engine being gone (and the page with
\* it): the rejection replaces the pending completion
PageCloseFail(c) ==
    /\ ~exited
    /\ pc[c] = "close"
    /\ ~EngineOpen(c)
    /\ pc' = Set(pc, c, "done")
    /\ outcome' = Set(outcome, c, "EngineError")
    /\ shotPath' = Set(shotPath, c, Undefined)
    /\ myBrowser' = Set(myBrowser, c, 0)
    /\ UNCHANGED <<restVars, page, imgs, timer>>

\* The response was sent: the slot serves the next request. (A slot whose
\* request left a page open keeps it.)
Ack(c) ==
    /\ ~exited
    /\ pc[c] = "done"
    /\ page[c] # "open"
    /\ pc' = Set(pc, c, "idle")
    /\ tool' = Set(tool, c, Null)
    /\ args' = Set(args, c, NoArgs)
    /\ didLaunch' = Set(didLaunch, c, FALSE)
    /\ didStat' = Set(didStat, c, FALSE)
    /\ page' = Set(page, c, "none")
    /\ shotPath' = Set(shotPath, c, Undefined)
    /\ outcome' = Set(outcome, c, Null)
    /\ analysis' = Set(analysis, c, Undefined)
    /\ UNCHANGED <<sessionVars, signalVars, diskVars, now, docImages, myBrowser,
                   imgs, timer>>

-----------------------------------------------------------------------------
(* The SIGINT handler of run(), lines 210-216.                             *)

\* browser.close() on handle h: the engine ends, and the pages it holds
CloseBrowser(h) ==
    /\ closeCalls' = [closeCalls EXCEPT ![h] = @ + 1]
    /\ engines' = [engines EXCEPT ![h] = "closed"]
    /\ page' = [c \in Calls |->
                  IF myBrowser[c] = h /\ page[c] = "open" THEN "closed"
                  ELSE page[c]]

\* lines 210-214: the handler starts; browser.close() is invoked when
\* this.browser is set, else server.close() is
Sigint ==
    /\ ~exited
    /\ Len(sig) < MaxSignals
    /\ IF browser # 0
       THEN /\ CloseBrowser(browser)
            /\ sig' = Append(sig, "browserClose")
       ELSE /\ sig' = Append(sig, "serverClose")
            /\ UNCHANGED <<closeCalls, engines, page>>
    /\ UNCHANGED <<browser, exited, diskVars, now, docImages, requestVars,
                   didLaunch, didStat, analysis, pc, myBrowser, imgs, timer,
                   shotPath, outcome>>

\* lines 212-214: browser.close() resolved; server.close() is invoked
SigBrowserClosed(k) ==
    /\ ~exited
    /\ sig[k] = "browserClose"
    /\ sig' = [sig EXCEPT ![k] = "serverClose"]
    /\ UNCHANGED <<sessionVars, exited, diskVars, now, docImages, requestVars,
                   didLaunch, didStat, analysis, pc, myBrowser, page, imgs,
                   timer, shotPath, outcome>>

\* lines 214-215: server.close() resolved; process.exit(0) ends the process
\* and, with it, every request and every other handler still pending
SigExit(k) ==
    /\ ~exited
    /\ sig[k] = "serverClose"
    /\ sig' = [j \in 1..Len(sig) |-> "exit"]
    /\ exited' = TRUE
    /\ pc' = [c \in Calls |-> "idle"]
    /\ tool' = [c \in Calls |-> Null]
    /\ args' = [c \in Calls |-> NoArgs]
    /\ myBrowser' = [c \in Calls |-> 0]
    /\ didLaunch' = [c \in Calls |-> FALSE]
    /\ didStat' = [c \in Calls |-> FALSE]
    /\ page' = [c \in Calls |-> "none"]
    /\ imgs' = [c \in Calls |-> NoImages]
    /\ timer' = [c \in Calls |-> 0]
    /\ shotPath' = [c \in Calls |-> Undefined]
    /\ outcome' = [c \in Calls |-> Null]
    /\ analysis' = [c \in Calls |-> Undefined]
    /\ UNCHANGED <<sessionVars, diskVars, now, docImages>>

-----------------------------------------------------------------------------
(* Specifications.                                                         *)

\* A request runs on: the operation it awaits resolves.
Proceed(c) ==
    \/ LaunchOk(c)
    \/ NewPageOk(c)
    \/ SetViewportOk(c)
    \/ SetBypassCSPOk(c)
    \/ SetExtraHTTPHeadersOk(c)
    \/ GotoOk(c)
    \/ AddStyleTag1Ok(c)
    \/ AddStyleTag2Ok(c)
    \/ BarrierEnter(c)
    \/ EvaluateOk(c)
    \/ DelayDone(c)
    \/ ScreenshotOk(c)
    \/ ContentOk(c)
    \/ PageCloseOk(c)

\* The operation a request awaits rejects.
Fault(c) ==
    \/ LaunchFail(c)
    \/ NewPageFail(c)
    \/ SetViewportFail(c)
    \/ SetBypassCSPFail(c)
    \/ SetExtraHTTPHeadersFail(c)
    \/ GotoFail(c)
    \/ AddStyleTag1Fail(c)
    \/ AddStyleTag2Fail(c)
    \/ EvaluateFail(c)
    \/ MkdirFail(c)
    \/ ScreenshotFail(c)
    \/ ContentFail(c)

ImageEvent(c) ==
    \E i \in Images : ImageLoad(c, i) \/ ImageError(c, i) \/ ImageInsert(c, i)

Shutdown ==
    \/ Sigint
    \/ \E k \in 1..Len(sig) : SigBrowserClosed(k) \/ SigExit(k)

AnyRequest(c) ==
    \/ Request(c, "preview_file", ArgChoices)
    \/ Request(c, "analyze_content", ArgChoices)
    \/ Request(c, "no_such_tool", ArgChoices)

\* The whole server.
Next ==
    \/ \E c \in Calls :
          \/ AnyRequest(c) \/ Proceed(c) \/ Fault(c) \/ PageCloseFail(c)
          \/ ImageEvent(c) \/ Ack(c)
    \/ Shutdown

Spec == Init /\ [][Next]_vars

\* Requests and engine faults; documents without images, no signal.
NextCalls ==
    \E c \in Calls : AnyRequest(c) \/ Proceed(c) \/ Fault(c) \/ Ack(c)

SpecCalls == Init /\ [][NextCalls]_vars

\* Two requests, engine faults and shutdown signals. The requests name no
\* file, a missing file, a file with its stylesheets or one without.
ShutdownArgs == {NoArgs, Args(P0), Args(P1), Args(P3)}

NextShutdown ==
    \/ \E c \in Calls :
          \/ Request(c, "preview_file", ShutdownArgs)
          \/ Request(c, "analyze_content", ShutdownArgs)
          \/ Proceed(c) \/ Fault(c) \/ PageCloseFail(c)
    \/ Shutdown

SpecShutdown == Init /\ [][NextShutdown]_vars

\* Two previews of two files with the same basename, on a healthy engine.
ShotArgs == {Args(P1), Args(P2)}

NextShots == \E c \in Calls : Request(c, "preview_file", ShotArgs) \/ Proceed(c)

SpecShots == Init /\ [][NextShots]_vars

\* Previews of documents with images, one request at a time.
InitBarrier ==
    /\ InitProcess
    /\ InitCalls
    /\ fs = FS0
    /\ docImages = Images

BarrierArgs == {Args(P1)}

NextBarrier ==
    \E c \in {"c1"} :
       \/ Request(c, "preview_file", BarrierArgs)
       \/ Proceed(c) \/ Fault(c) \/ ImageEvent(c) \/ Ack(c)

\* The engine answers an evaluate whose promise is resolved, and every image
\* the barrier awaits fires load or error; an image inserted later may load
\* at any time or never.
BarrierFairness ==
    \A c \in {"c1"} :
       /\ WF_vars(EvaluateOk(c))
       /\ \A i \in Images : WF_vars(ImageLoad(c, i) \/ ImageError(c, i))

SpecBarrier == InitBarrier /\ [][NextBarrier]_vars /\ BarrierFairness

\* analyze_content on generated documents.
InitAnalyze ==
    /\ InitProcess
    /\ InitCalls
    /\ fs \in {[FS0 EXCEPT ![P1] = d] : d \in Docs}
    /\ docImages = {}

AnalyzeArgs == {Args(P0), Args(P1)}

NextAnalyze == Request("c1", "analyze_content", AnalyzeArgs) \/ Ack("c1")

SpecAnalyze == InitAnalyze /\ [][NextAnalyze]_vars

-----------------------------------------------------------------------------
(* Claims.                                                                 *)

PreviewOrAnalyze == {"preview_file", "analyze_content"}

\* Request c has been answered.
Done(c) == pc[c] = "done"

\* C1: at most one browser engine is ever launched, and all requests in
\* flight hold the same handle.
C1_SingleHandle ==
    /\ Len(engines) <= 1
    /\ \A c, d \in Calls :
          (myBrowser[c] # 0 /\ myBrowser[d] # 0) => myBrowser[c] = myBrowser[d]

\* C2: no answered preview request has left its page open.
C2_NoOrphanPage == \A c \in Calls : Done(c) => page[c] # "open"

\* Request c named a path at which there is no file (or no path string).
NoSuchFile(c) ==
    /\ tool[c] \in PreviewOrAnalyze
    /\ args[c].given
    /\ ~ExistsSync(args[c].filePath)

\* C3: a preview or analysis request for a path without a file is answered
\* with the not-found error in the step that receives it, and that step
\* launches no engine, opens no page and writes nothing to disk.
C3_NotFoundTouchesNothing ==
    [][\A c \in Calls :
         (pc[c] = "idle" /\ pc'[c] # "idle" /\ NoSuchFile(c)')
           => /\ pc'[c] = "done"
              /\ outcome'[c] = "NotFound"
              /\ ~didLaunch'[c]
              /\ myBrowser'[c] = myBrowser[c]
              /\ UNCHANGED <<browser, engines, page, shotDir, shots, fs>>]_vars

C3_Witness ==
    \E c, d \in Calls :
       /\ Done(c) /\ tool[c] = "preview_file" /\ args[c] = Args(P0)
       /\ outcome[c] = "NotFound"
       /\ Done(d) /\ tool[d] = "analyze_content" /\ args[d] = Args(P0)
       /\ outcome[d] = "NotFound"

\* Request c came without filePath: no argument mapping, or none of that name.
MissingFilePath(c) ==
    /\ tool[c] \in PreviewOrAnalyze
    /\ (~args[c].given \/ args[c].filePath = Undefined)

\* C4: a request without filePath is answered with the missing-argument
\* error, before the existence check is made.
C4_MissingArgumentRejected ==
    \A c \in Calls :
       (Done(c) /\ MissingFilePath(c))
         => outcome[c] = "MissingArgument" /\ ~didStat[c]

\* The target of request c exists and one of its two stylesheets does not.
StylesheetMissing(c) ==
    /\ tool[c] = "preview_file"
    /\ args[c].given
    /\ ExistsSync(args[c].filePath)
    /\ \/ MainCssPath(args[c].filePath) \notin DOMAIN fs
       \/ PageCssPath(args[c].filePath) \notin DOMAIN fs

\* C5: a preview of a file with a stylesheet missing fails, writes no
\* screenshot, and has its page closed when it is answered.
C5_MissingStylesheet ==
    \A c \in Calls :
       (Done(c) /\ StylesheetMissing(c))
         => /\ outcome[c] # "ok"
            /\ shotPath[c] = Undefined
            /\ \A n \in DOMAIN shots : shots[n] # args[c].filePath
            /\ page[c] # "open"

\* A step of request c.
StepOf(c) == pc'[c] # pc[c] /\ ~exited'

\* C6: the step in which a request fails, and every step it takes after
\* that, leaves the browser handle and the engines as they are; a request that found the handle set never changes
\* it; a request arriving while the handle is set launches nothing and uses
\* that handle; and an engine is closed only by the step of a shutdown
\* signal.
C6_FailureKeepsHandle ==
    [][/\ \A c \in Calls :
            (StepOf(c) /\ outcome'[c] \notin {Null, "ok"})
              => UNCHANGED <<browser, engines, closeCalls>>
       /\ \A c \in Calls :
            (StepOf(c) /\ ~didLaunch'[c])
              => UNCHANGED <<browser, engines, closeCalls>>
       /\ \A c \in Calls :
            (StepOf(c) /\ pc[c] = "idle" /\ browser # 0)
              => /\ pc'[c] \in {"done", "newPage"}
                 /\ pc'[c] = "newPage" => myBrowser'[c] = browser
       /\ (\E h \in 1..Len(engines) : engines'[h] # engines[h])
              => Len(sig') = Len(sig) + 1]_vars

C6_Witness ==
    \E c, d \in Calls :
       /\ Done(c) /\ didLaunch[c] /\ outcome[c] = "EngineError"
       /\ Done(d) /\ ~didLaunch[d] /\ outcome[d] = "StyleResourceError"
       /\ page[d] = "closed"
       /\ browser = 1 /\ engines = <<"open">> /\ sig = <<>>

\* Request c answered with a screenshot.
Captured(c) == Done(c) /\ tool[c] = "preview_file" /\ outcome[c] = "ok"

\* C7: two previews of different files return different screenshot paths,
\* and the file at each path holds the capture of that request's page.
C7_OwnScreenshot ==
    \A c, d \in Calls :
       (c # d /\ Captured(c) /\ Captured(d)
          /\ args[c].filePath # args[d].filePath)
         => /\ shotPath[c] # shotPath[d]
            /\ shots[shotPath[c]] = args[c].filePath
            /\ shots[shotPath[d]] = args[d].filePath

\* C8: close() is invoked at most once on a handle, so never on a closed one,
\* and exactly once by the time the process exits.
C8_ClosedExactlyOnce ==
    \A h \in 1..Len(engines) :
       /\ closeCalls[h] <= 1
       /\ exited => closeCalls[h] = 1

\* The closing tag of an opening tag.
CloseOf(t) ==
    CASE t = "<h1>" -> "</h1>"
      [] t = "<h2>" -> "</h2>"
      [] t = "<p>"  -> "</p>"
      [] t = "<a>"  -> "</a>"

\* The end of the element opened at position i, or 0.
ElementEnd(text, i) ==
    IF \E j \in (i + 1)..Len(text) : text[j] = CloseOf(text[i])
    THEN CHOOSE j \in (i + 1)..Len(text) :
            /\ text[j] = CloseOf(text[i])
            /\ \A k \in (i + 1)..(j - 1) : text[k] # CloseOf(text[i])
    ELSE 0

\* The reference counter: the elements of a text whose opening tag is among
\* `open`, each an opening tag with its own closing tag after it.
Elements(text, open) ==
    Cardinality({i \in 1..Len(text) : text[i] \in open /\ ElementEnd(text, i) > 0})

RECURSIVE Occurrences(_, _)
Occurrences(text, t) ==
    IF text = <<>> THEN 0
    ELSE (IF Head(text) = t THEN 1 ELSE 0) + Occurrences(Tail(text), t)

Reference(text) ==
    [headings   |-> Elements(text, {"<h1>", "<h2>"}),
     paragraphs |-> Elements(text, {"<p>"}),
     images     |-> Occurrences(text, "<img>"),
     links      |-> Elements(text, {"<a>"})]

\* No heading, paragraph or anchor element of the text holds a line terminator.
OnOneLine(text) ==
    \A i \in 1..Len(text) :
       (text[i] \in {"<h1>", "<h2>", "<p>", "<a>"} /\ ElementEnd(text, i) > 0)
         => \A k \in i..ElementEnd(text, i) : text[k] # "LF"

\* Request c was an analysis, answered with counts.
Analysed(c) == Done(c) /\ tool[c] = "analyze_content" /\ outcome[c] = "ok"

\* C9 as stated: for any file, the counts analyze_content returns are those of
\* the reference counter.
C9_CountsMatchReference ==
    \A c \in Calls :
       Analysed(c) => analysis[c] = Reference(fs[args[c].filePath])

\* C9 as amended: for any file none of whose heading, paragraph or anchor
\* elements holds a line terminator, the counts analyze_content returns are
\* those of the reference counter.
C9_CountsMatchOnOneLine ==
    \A c \in Calls :
       (Analysed(c) /\ OnOneLine(fs[args[c].filePath]))
         => analysis[c] = Reference(fs[args[c].filePath])

C9_Witness ==
    \E c \in Calls :
       /\ Analysed(c)
       /\ fs[args[c].filePath] = ExampleDoc
       /\ analysis[c] = [headings |-> 3, paragraphs |-> 2, images |-> 1,
                         links |-> 4]

\* C10: no request waits for its timer or its screenshot while an image the
\* barrier awaits has fired neither load nor error; the load or error event
\* of an awaited image moves the request nowhere and changes no outcome;
\* and a request inside the barrier gets past it (or the evaluate rejects),
\* whatever images were inserted after it was entered.
C10_ImageBarrier ==
    /\ [](\A c \in Calls :
            pc[c] \in {"delay", "screenshot"}
              => \A i \in Images : imgs[c][i] # "awaited")
    /\ [][\A c \in Calls : \A i \in Images :
            (imgs[c][i] = "awaited" /\ imgs'[c][i] \in {"loaded", "error"})
              => pc'[c] = pc[c] /\ outcome'[c] = outcome[c]]_vars
    /\ \A c \in Calls :
          (pc[c] = "imageWait") ~> (pc[c] \in {"delay", "close"})

C10_Witness ==
    \E c \in Calls :
       /\ pc[c] = "screenshot"
       /\ imgs[c][1] = "error"
       /\ imgs[c][2] = "late"

====
